---- MODULE Spec2Model ----
(***************************************************************************)
(* kraken2rfb: classification of Kraken deposits, withdrawals and trades   *)
(* into declaration records (src/report/mod.rs), and their encoding into   *)
(* the pipe-delimited, CRLF-terminated report (src/report/encoding.rs,     *)
(* src/report/transactions.rs), driven by main (src/main.rs).              *)
(*                                                                         *)
(* Text is a sequence of one-character strings ("CR" and "LF" stand for    *)
(* the two control characters).  A Decimal is a record                     *)
(* [mantissa, scale] denoting mantissa / 10^scale, as in rust_decimal.     *)
(***************************************************************************)
EXTENDS Integers, Sequences, FiniteSets, TLC

\* ------------------------------------------------------------------ bounds
\* most entries (deposits, withdrawals and trades together) of one run
MaxEntries == 3
\* largest scale a quotient may take (28 in rust_decimal)
DecMaxScale == 4
\* width of the integer int_part returns (64 bits in the program)
I64Bits == 18

\* ------------------------------------------------------------------- text
None == [none |-> TRUE]
Err == [err |-> TRUE]

Digits == {"0", "1", "2", "3", "4", "5", "6", "7", "8", "9"}

DigitChars == <<"0", "1", "2", "3", "4", "5", "6", "7", "8", "9">>

DigitOf(c) == (CHOOSE k \in 1..10 : DigitChars[k] = c) - 1

Contains(s, c) == \E k \in 1..Len(s) : s[k] = c

LowerChars == <<"a", "b", "c", "d", "e", "f", "g", "h", "i", "j", "k", "l", "m",
                "n", "o", "p", "q", "r", "s", "t", "u", "v", "w", "x", "y", "z">>

UpperChars == <<"A", "B", "C", "D", "E", "F", "G", "H", "I", "J", "K", "L", "M",
                "N", "O", "P", "Q", "R", "S", "T", "U", "V", "W", "X", "Y", "Z">>

to_uppercase(s) ==
    [k \in 1..Len(s) |->
        IF \E j \in 1..26 : LowerChars[j] = s[k]
        THEN UpperChars[CHOOSE j \in 1..26 : LowerChars[j] = s[k]]
        ELSE s[k]]

\* --------------------------------------------------------- kraken::is_fiat
FIAT_CURRENCIES ==
    { <<"U","S","D">>, <<"Z","U","S","D">>,
      <<"E","U","R">>, <<"Z","E","U","R">>,
      <<"G","B","P">>, <<"Z","G","B","P">>,
      <<"J","P","Y">>, <<"Z","J","P","Y">>,
      <<"C","A","D">>, <<"Z","C","A","D">>,
      <<"A","U","D">>, <<"Z","A","U","D">>,
      <<"M","X","N">>, <<"Z","M","X","N">>,
      <<"C","H","F">>, <<"Z","C","H","F">>,
      <<"B","R","L">>, <<"Z","B","R","L">>,
      <<"A","R","S">>, <<"Z","A","R","S">>,
      <<"A","E","D">>, <<"Z","A","E","D">> }

is_fiat(ticker) == to_uppercase(ticker) \in FIAT_CURRENCIES

\* ------------------------------------------------- kraken_pairs::parse_pair
\* Rows of the generated pair table: pair code -> (base altname, quote altname)
KRAKEN_PAIRS ==
    { << <<"X","X","B","T","Z","U","S","D">>, <<"B","T","C">>, <<"U","S","D">> >>,
      << <<"X","E","T","H","X","X","B","T">>, <<"E","T","H">>, <<"B","T","C">> >>,
      << <<"Z","E","U","R","Z","U","S","D">>, <<"E","U","R">>, <<"U","S","D">> >>,
      << <<"E","U","R","X","B","T">>,         <<"E","U","R">>, <<"B","T","C">> >> }

parse_pair(pair) ==
    IF \E row \in KRAKEN_PAIRS : row[1] = pair
    THEN LET row == CHOOSE row \in KRAKEN_PAIRS : row[1] = pair
         IN  <<row[2], row[3]>>
    ELSE None

\* ---------------------------------------------------------------- Decimal
Dec(m, s) == [mantissa |-> m, scale |-> s]

RECURSIVE Pow10(_)
Pow10(n) == IF n = 0 THEN 1 ELSE 10 * Pow10(n - 1)

Abs(x) == IF x < 0 THEN -x ELSE x

Max(a, b) == IF a >= b THEN a ELSE b

\* numeric equality of two Decimals (PartialEq of rust_decimal ignores scale)
DecEq(a, b) ==
    LET s == Max(a.scale, b.scale)
    IN  a.mantissa * Pow10(s - a.scale) = b.mantissa * Pow10(s - b.scale)

\* str::parse::<Decimal>: optional sign, digits, at most one '.'
RECURSIVE ParseDigits(_, _, _, _, _)
ParseDigits(s, k, m, sc, dot) ==
    IF k > Len(s) THEN Dec(m, sc)
    ELSE IF s[k] = "."
         THEN IF dot THEN Err ELSE ParseDigits(s, k + 1, m, sc, TRUE)
         ELSE IF s[k] \in Digits
              THEN ParseDigits(s, k + 1, m * 10 + DigitOf(s[k]),
                               IF dot THEN sc + 1 ELSE sc, dot)
              ELSE Err

ParseDecimal(s) ==
    IF Len(s) = 0 \/ \A k \in 1..Len(s) : s[k] \notin Digits THEN Err
    ELSE IF s[1] = "-"
         THEN LET p == ParseDigits(Tail(s), 1, 0, 0, FALSE)
              IN  IF p = Err THEN Err ELSE Dec(-p.mantissa, p.scale)
         ELSE ParseDigits(s, 1, 0, 0, FALSE)

\* a - b: both operands are rescaled to the larger scale
DecSub(a, b) ==
    LET s == Max(a.scale, b.scale)
    IN  Dec(a.mantissa * Pow10(s - a.scale) - b.mantissa * Pow10(s - b.scale), s)

\* a * b: mantissas multiply, scales add
DecMul(a, b) == Dec(a.mantissa * b.mantissa, a.scale + b.scale)

\* a / b for b # 0: the exact quotient when it has at most DecMaxScale
\* fractional digits, otherwise the quotient rounded (half to even) to
\* DecMaxScale digits
DecDiv(a, b) ==
    LET n == Abs(a.mantissa) * Pow10(b.scale)
        d == Abs(b.mantissa) * Pow10(a.scale)
        neg == (a.mantissa < 0) # (b.mantissa < 0)
        sgn(x) == IF neg THEN -x ELSE x
        exact == {k \in 0..DecMaxScale : (n * Pow10(k)) % d = 0}
    IN  IF exact # {}
        THEN LET k == CHOOSE k \in exact : \A j \in exact : k <= j
             IN  Dec(sgn((n * Pow10(k)) \div d), k)
        ELSE LET q == (n * Pow10(DecMaxScale)) \div d
                 r == (n * Pow10(DecMaxScale)) % d
                 up == 2 * r > d \/ (2 * r = d /\ q % 2 = 1)
             IN  Dec(sgn(IF up THEN q + 1 ELSE q), DecMaxScale)

\* Decimal::trunc: drop the fractional digits
DecTrunc(a) ==
    IF a.mantissa >= 0
    THEN Dec(a.mantissa \div Pow10(a.scale), 0)
    ELSE Dec(-((-a.mantissa) \div Pow10(a.scale)), 0)

\* mutant: the digits beyond dp are cut off
DecRoundDp_truncate(a, dp) ==
    IF a.scale <= dp THEN a
    ELSE LET v == Abs(a.mantissa) \div Pow10(a.scale - dp)
         IN  Dec(IF a.mantissa < 0 THEN -v ELSE v, dp)

\* mutant: a midpoint goes away from zero
DecRoundDp_halfAwayFromZero(a, dp) ==
    IF a.scale <= dp THEN a
    ELSE LET p == Pow10(a.scale - dp)
             q == Abs(a.mantissa) \div p
             r == Abs(a.mantissa) % p
             v == IF 2 * r >= p THEN q + 1 ELSE q
         IN  Dec(IF a.mantissa < 0 THEN -v ELSE v, dp)

\* Decimal::round_dp(dp): banker's rounding to dp fractional digits
DecRoundDp(a, dp) ==
    IF a.scale <= dp THEN a
    ELSE LET p == Pow10(a.scale - dp)
             q == Abs(a.mantissa) \div p
             r == Abs(a.mantissa) % p
             up == 2 * r > p \/ (2 * r = p /\ q % 2 = 1)
             v == IF up THEN q + 1 ELSE q
         IN  Dec(IF a.mantissa < 0 THEN -v ELSE v, dp)

\* ------------------------------------------------------------------ dates
\* DateTime::from_timestamp(secs, 0).date_naive() for secs >= 0: the civil
\* (proleptic Gregorian, UTC) date of day secs \div 86400 after 1970-01-01
DateFromTimestamp(secs) ==
    LET z   == (secs \div 86400) + 719468
        era == z \div 146097
        doe == z - era * 146097
        yoe == (doe - (doe \div 1460) + (doe \div 36524) - (doe \div 146096)) \div 365
        doy == doe - (365 * yoe + (yoe \div 4) - (yoe \div 100))
        mp  == (5 * doy + 2) \div 153
        d   == doy - ((153 * mp + 2) \div 5) + 1
        m   == IF mp < 10 THEN mp + 3 ELSE mp - 9
        y   == yoe + era * 400 + (IF m <= 2 THEN 1 ELSE 0)
    IN  [year |-> y, month |-> m, day |-> d]

\* main::to_decimal: the JSON number's text parsed as a Decimal
to_decimal(value) == ParseDecimal(value)

\* `as i64`: the low I64Bits bits of n, read as a two's complement number
WrapI64(n) ==
    LET m == n % (2 ^ I64Bits)
    IN  IF m >= 2 ^ (I64Bits - 1) THEN m - 2 ^ I64Bits ELSE m

\* report::int_part: the truncated value's mantissa (an i128), cast to i64.
\* Every value of that width is a timestamp chrono accepts.
int_part(d) == WrapI64(DecTrunc(d).mantissa)

\* ------------------------------------------------------ report::encoding
FDate(d) == [k |-> "Date", date |-> d]

FDecimalNumber(v, p) == [k |-> "DecimalNumber", value |-> v, precision |-> p]

FAlphaNumber(v) == [k |-> "AlphaNumber", value |-> v]

FEmpty == [k |-> "Empty"]

RECURSIVE NatDigits(_)
NatDigits(n) ==
    IF n < 10 THEN <<DigitChars[n + 1]>>
    ELSE Append(NatDigits(n \div 10), DigitChars[(n % 10) + 1])

Zeros(n) == [k \in 1..n |-> "0"]

\* mutant: the number is written without padding
ZeroPad_none(n, w) == NatDigits(n)

\* {:0w}: at least w digits, zero-padded on the left
ZeroPad(n, w) ==
    LET ds == NatDigits(n)
    IN  IF Len(ds) >= w THEN ds ELSE Zeros(w - Len(ds)) \o ds

\* Display of a Decimal with a fixed number of fractional digits
FormatFixed(v, precision) ==
    LET a    == Abs(v.mantissa)
        ip   == a \div Pow10(v.scale)
        fp   == a % Pow10(v.scale)
        frac == IF v.scale = 0 THEN <<>> ELSE ZeroPad(fp, v.scale)
        fixd == IF Len(frac) >= precision
                THEN SubSeq(frac, 1, precision)
                ELSE frac \o Zeros(precision - Len(frac))
        sign == IF v.mantissa < 0 THEN <<"-">> ELSE <<>>
    IN  sign \o NatDigits(ip) \o (IF precision = 0 THEN <<>> ELSE <<".">> \o fixd)

Replace(s, from, to) == [k \in 1..Len(s) |-> IF s[k] = from THEN to ELSE s[k]]

\* impl Display for Field
FieldText(f) ==
    CASE f.k = "Date" ->
           ZeroPad(f.date.day, 2) \o ZeroPad(f.date.month, 2) \o ZeroPad(f.date.year, 4)
      [] f.k = "DecimalNumber" ->
           Replace(FormatFixed(DecRoundDp(f.value, f.precision), f.precision), ".", ",")
      [] f.k = "AlphaNumber" -> f.value
      [] f.k = "Empty" -> <<>>

\* impl From<&str> for Field: the checked constructor (panics on '|')
FieldFrom(value) == IF Contains(value, "|") THEN Err ELSE FAlphaNumber(value)

RECURSIVE JoinFields(_, _)
JoinFields(fields, sep) ==
    IF Len(fields) = 0 THEN <<>>
    ELSE IF Len(fields) = 1 THEN FieldText(fields[1])
    ELSE FieldText(fields[1]) \o sep \o JoinFields(Tail(fields), sep)

\* mutant: a delimiter is written after the last field as well
write_register_row_trailingPipe(fields) ==
    JoinFields(fields, <<"|">>) \o <<"|", "CR", "LF">>

\* write_register_row: what one call appends to the writer
write_register_row(fields) == JoinFields(fields, <<"|">>) \o <<"CR", "LF">>

\* -------------------------------------------------- report::transactions
kraken_exchange_info ==
    [name    |-> <<"K","r","a","k","e","n">>,
     url     |-> <<"h","t","t","p","s",":","/","/","w","w","w",".",
                   "k","r","a","k","e","n",".","c","o","m">>,
     country |-> <<"U","S">>]

TransactionBase(date, fees, symbol, amount) ==
    [operation_date |-> date, operation_fees |-> fees,
     crypto_symbol |-> symbol, crypto_amount |-> amount]

\* mutant: a Sale carries the code of a Purchase
record_type_saleAsPurchase(t) ==
    CASE t.type \in {"Purchase", "Sale"}   -> << <<"0","1","1","0">>, <<"I">> >>
      [] t.type = "Swap"                   -> << <<"0","2","1","0">>, <<"I","I">> >>
      [] t.type = "TransferToExchange"     -> << <<"0","4","1","0">>, <<"I","V">> >>
      [] t.type = "WithdrawalFromExchange" -> << <<"0","5","1","0">>, <<"V">> >>
      [] t.type = "CryptoPaymentReceiver"  -> << <<"0","7","1","0">>, <<"V","I","I">> >>
      [] t.type = "CryptoPaymentSender"    -> << <<"0","7","2","0">>, <<"V","I","I">> >>

record_type(t) ==
    CASE t.type = "Purchase"               -> << <<"0","1","1","0">>, <<"I">> >>
      [] t.type = "Sale"                   -> << <<"0","1","2","0">>, <<"I">> >>
      [] t.type = "Swap"                   -> << <<"0","2","1","0">>, <<"I","I">> >>
      [] t.type = "TransferToExchange"     -> << <<"0","4","1","0">>, <<"I","V">> >>
      [] t.type = "WithdrawalFromExchange" -> << <<"0","5","1","0">>, <<"V">> >>
      [] t.type = "CryptoPaymentReceiver"  -> << <<"0","7","1","0">>, <<"V","I","I">> >>
      [] t.type = "CryptoPaymentSender"    -> << <<"0","7","2","0">>, <<"V","I","I">> >>

\* mutant: the exchange's URL is left out
ExchangeInfo_fields_noUrl(e) == <<FAlphaNumber(e.name), FAlphaNumber(e.country)>>

ExchangeInfo_fields(e) ==
    <<FAlphaNumber(e.name), FAlphaNumber(e.url), FAlphaNumber(e.country)>>

\* mutant: an absent fee is written as zero
OptFees_zero(fees) == FDecimalNumber(IF fees = None THEN Dec(0, 0) ELSE fees, 2)

OptFees(fees) == IF fees = None THEN FEmpty ELSE FDecimalNumber(fees, 2)

OptText(v) == IF v = None THEN FEmpty ELSE FAlphaNumber(v)

\* mutant: an absent fee gets no field at all
common_fields_skipAbsentFee(base, record_code) ==
    <<FDate(base.operation_date), FAlphaNumber(record_code)>>
    \o (IF base.operation_fees = None THEN <<>>
        ELSE <<FDecimalNumber(base.operation_fees, 2)>>)
    \o <<FAlphaNumber(base.crypto_symbol), FDecimalNumber(base.crypto_amount, 10)>>

common_fields(base, record_code) ==
    <<FDate(base.operation_date), FAlphaNumber(record_code), OptFees(base.operation_fees),
      FAlphaNumber(base.crypto_symbol), FDecimalNumber(base.crypto_amount, 10)>>

\* the field list write_transaction builds for a record
TransactionFields(t) ==
    LET rt == record_type(t)
        record_type_ == rt[1]
        record_code  == rt[2]
    IN  CASE t.type = "Purchase" ->
               <<FAlphaNumber(record_type_), FDate(t.base.operation_date),
                 FAlphaNumber(record_code), FDecimalNumber(t.operation_value, 2),
                 OptFees(t.base.operation_fees), FAlphaNumber(t.base.crypto_symbol),
                 FDecimalNumber(t.base.crypto_amount, 10)>>
               \o ExchangeInfo_fields(t.buyer_exchange)
          [] t.type = "Sale" ->
               <<FAlphaNumber(record_type_), FDate(t.base.operation_date),
                 FAlphaNumber(record_code), FDecimalNumber(t.operation_value, 2),
                 OptFees(t.base.operation_fees), FAlphaNumber(t.base.crypto_symbol),
                 FDecimalNumber(t.base.crypto_amount, 12)>>
               \o ExchangeInfo_fields(t.seller_exchange)
          [] t.type = "Swap" ->
               <<FAlphaNumber(record_type_), FDate(t.operation_date),
                 FAlphaNumber(record_code), OptFees(t.operation_fees),
                 FAlphaNumber(t.received_crypto_symbol),
                 FDecimalNumber(t.received_crypto_amount, 10),
                 FAlphaNumber(t.given_crypto_symbol),
                 FDecimalNumber(t.given_crypto_amount, 10)>>
               \o ExchangeInfo_fields(t.exchange)
          [] t.type = "TransferToExchange" ->
               <<FAlphaNumber(record_type_)>> \o common_fields(t.base, record_code)
               \o <<OptText(t.origin_wallet), OptText(t.origin_exchange_name)>>
          [] t.type = "WithdrawalFromExchange" ->
               <<FAlphaNumber(record_type_)>> \o common_fields(t.base, record_code)
               \o ExchangeInfo_fields(t.origin_exchange)
          [] t.type = "CryptoPaymentReceiver" ->
               <<FAlphaNumber(record_type_)>> \o common_fields(t.base, record_code)
               \o ExchangeInfo_fields(t.receiver_exchange)
          [] t.type = "CryptoPaymentSender" ->
               <<FAlphaNumber(record_type_)>> \o common_fields(t.base, record_code)
               \o ExchangeInfo_fields(t.sender_exchange)

\* write_transaction: the bytes one record appends to the writer
write_transaction(t) == write_register_row(TransactionFields(t))

\* ----------------------------------------------------------- exchange_rate
CURRENCY_TO_BCB_SERIES ==
    { <<"U","S","D">>, <<"E","U","R">>, <<"J","P","Y">>, <<"G","B","P">>,
      <<"C","H","F">>, <<"D","K","K">>, <<"N","O","K">>, <<"S","E","K">>,
      <<"A","U","D">>, <<"C","A","D">> }

\* the source get_exchange_rate asks for an asset code
RateSource(asset_code) ==
    IF asset_code \in CURRENCY_TO_BCB_SERIES THEN "bcb" ELSE "coingecko"

\* what a rate request can answer: an error, or a rate in BRL per unit
RateOutcomes == {Err, Dec(15, 1)}

\* one call of get_exchange_rate and its answer
RateCall(date, asset_code, result) ==
    [date |-> date, asset_code |-> asset_code,
     source |-> RateSource(asset_code), result |-> result]

\* ------------------------------------------------------------------ inputs
XXBT == <<"X","X","B","T">>
ZEUR == <<"Z","E","U","R">>

DepositEntries ==
    { [asset |-> XXBT, amount |-> <<"1",".","5">>, fee |-> <<"0",".","1">>, time |-> 86399],
      [asset |-> <<"e","u","r">>, amount |-> <<"7">>, fee |-> <<"0">>, time |-> 86399],
      [asset |-> <<"X","|","Y">>, amount |-> <<"2">>, fee |-> <<"0">>, time |-> 86400] }

WithdrawalEntries ==
    { [asset |-> XXBT, amount |-> <<"1">>, fee |-> <<"0",".","5">>, time |-> 86399],
      [asset |-> ZEUR, amount |-> <<"5","0">>, fee |-> <<"1">>, time |-> 86400] }

BTCUSD == <<"X","X","B","T","Z","U","S","D">>
ETHBTC == <<"X","E","T","H","X","X","B","T">>
EURUSD == <<"Z","E","U","R","Z","U","S","D">>
EURXBT == <<"E","U","R","X","B","T">>

T1 == <<"8","6","3","9","9",".","5">>
T2 == <<"8","6","4","0","0">>
\* a timestamp whose integer part needs more than I64Bits bits:
\* 2^I64Bits + 86400 seconds and a half
T3 == NatDigits(2 ^ I64Bits + 86400) \o <<".", "5">>

Trade(pair, type, vol, cost, fee, price, time) ==
    [pair |-> pair, type |-> type, vol |-> vol, cost |-> cost, fee |-> fee,
     price |-> price, time |-> time]

buy == <<"b","u","y">>
sell == <<"s","e","l","l">>

TradeEntries ==
    { Trade(BTCUSD, buy,  <<"2">>, <<"6">>, <<"1">>, <<"3">>, T1),
      Trade(BTCUSD, sell, <<"0",".","5">>, <<"1",".","0">>, <<"0",".","1">>, <<"2">>, T2),
      Trade(BTCUSD, sell, <<"1">>, <<"0">>, <<"0">>, <<"0">>, T1),
      Trade(BTCUSD, <<"b">>, <<"2">>, <<"6">>, <<"1">>, <<"3">>, T1),
      Trade(ETHBTC, buy,  <<"2">>, <<"6">>, <<"1">>, <<"3">>, T1),
      Trade(ETHBTC, sell, <<"0",".","5">>, <<"1",".","0">>, <<"0",".","1">>, <<"2">>, T2),
      Trade(ETHBTC, <<"s">>, <<"2">>, <<"6">>, <<"1">>, <<"3">>, T2),
      Trade(EURUSD, buy,  <<"2">>, <<"6">>, <<"1">>, <<"3">>, T1),
      Trade(EURXBT, sell, <<"2">>, <<"6">>, <<"1">>, <<"3">>, T1),
      Trade(ETHBTC, buy,  <<"2">>, <<"6">>, <<"1">>, <<"3">>, T3),
      Trade(BTCUSD, buy,  <<"0",".","1">>, <<"1">>, <<"2">>, <<"3">>, T2) }

\* fetch_kraken_activity returns each list sorted by time ascending
SortedByTime(list) ==
    \A a, b \in 1..Len(list) : a < b => list[a].time <= list[b].time

\* order of two Decimals
DecLeq(a, b) ==
    LET s == Max(a.scale, b.scale)
    IN  a.mantissa * Pow10(s - a.scale) <= b.mantissa * Pow10(s - b.scale)

TradesSortedByTime(list) ==
    \A a, b \in 1..Len(list) :
        a < b => DecLeq(to_decimal(list[a].time), to_decimal(list[b].time))

\* ------------------------------------------------------------------- state
VARIABLES
    deposits,      \* main: the fetched deposit entries
    withdrawals,   \* main: the fetched withdrawal entries
    trades,        \* main: the fetched trade entries
    pc,            \* where the run is
    i,             \* index of the entry (or record) the current loop is at
    transactions,  \* process_kraken_data: the Vec being filled
    rateCalls,     \* the calls of get_exchange_rate made so far, with answers
    classified,    \* main: the Vec process_kraken_data returned (empty before)
    fields,        \* write_transaction: the Vec<Field> of its latest call
    writer,        \* generate_report: bytes held by the BufWriter
    io_failed,     \* whether a call on the output stream has returned an error
    out_file,      \* the output file: None while it does not exist, else its content
    rate_query     \* a rate function called on its own: its inputs, requests, result

vars == <<deposits, withdrawals, trades, pc, i, transactions, rateCalls,
          classified, fields, writer, io_failed, out_file, rate_query>>

\* the loop that follows once the loops before `phase` have run out
FirstFrom(phase) ==
    IF phase = "deposits" /\ Len(deposits) > 0 THEN <<"deposits", 1>>
    ELSE IF phase \in {"deposits", "withdrawals"} /\ Len(withdrawals) > 0
         THEN <<"withdrawals", 1>>
    ELSE IF Len(trades) > 0 THEN <<"trades", 1>>
    ELSE <<"sort", 1>>

\* position after entry idx of loop `phase` has been handled
NextPos(phase, idx) ==
    CASE phase = "deposits" ->
           IF idx < Len(deposits) THEN <<phase, idx + 1>> ELSE FirstFrom("withdrawals")
      [] phase = "withdrawals" ->
           IF idx < Len(withdrawals) THEN <<phase, idx + 1>> ELSE FirstFrom("trades")
      [] phase = "trades" ->
           IF idx < Len(trades) THEN <<phase, idx + 1>> ELSE <<"sort", 1>>

Init ==
    /\ \E nd \in 0..MaxEntries : \E nw \in 0..(MaxEntries - nd) :
       \E nt \in 0..(MaxEntries - nd - nw) :
          /\ deposits \in {l \in [1..nd -> DepositEntries] : SortedByTime(l)}
          /\ withdrawals \in {l \in [1..nw -> WithdrawalEntries] : SortedByTime(l)}
          /\ trades \in {l \in [1..nt -> TradeEntries] : TradesSortedByTime(l)}
    /\ pc = FirstFrom("deposits")[1]
    /\ i = 1
    /\ transactions = <<>>
    /\ rateCalls = <<>>
    /\ classified = <<>>
    /\ fields = <<>>
    /\ writer = <<>>
    /\ io_failed = FALSE
    /\ out_file = None
    /\ rate_query = None

\* the loop body ends and the loop moves on
Continue(txs, calls) ==
    /\ pc' = NextPos(pc, i)[1]
    /\ i' = NextPos(pc, i)[2]
    /\ transactions' = txs
    /\ rateCalls' = calls
    /\ UNCHANGED <<deposits, withdrawals, trades, classified, fields, writer, io_failed,
                   out_file, rate_query>>

\* mutant: the failing entry is dropped and the loop goes on
Abort_skipEntry(calls) == Continue(transactions, calls)

\* a panic unwinds process_kraken_data: its Vec is dropped, main never resumes
Abort(calls) ==
    /\ pc' = "panicked"
    /\ transactions' = <<>>
    /\ rateCalls' = calls
    /\ UNCHANGED <<deposits, withdrawals, trades, i, classified, fields, writer,
                   io_failed, out_file, rate_query>>

\* -------------------------------------------------------------- deposits
\* mutant: the deposit's fee is not carried over
TransferToExchange_noFee(asset, amount, fee, time) ==
    [type |-> "TransferToExchange",
     base |-> TransactionBase(time, None, asset, amount),
     origin_wallet |-> None,
     origin_exchange_name |-> None]

TransferToExchange(asset, amount, fee, time) ==
    [type |-> "TransferToExchange",
     base |-> TransactionBase(time, fee, asset, amount),
     origin_wallet |-> None,
     origin_exchange_name |-> None]

ProcessDeposit ==
    /\ pc = "deposits"
    /\ LET deposit == deposits[i]
           asset   == deposit.asset
       IN  IF is_fiat(asset) THEN Continue(transactions, rateCalls)
           ELSE LET amount == ParseDecimal(deposit.amount)
                    fee    == ParseDecimal(deposit.fee)
                    time   == DateFromTimestamp(deposit.time)
                IN  IF amount = Err \/ fee = Err THEN Abort(rateCalls)
                    ELSE Continue(Append(transactions,
                                         TransferToExchange(asset, amount, fee, time)),
                                  rateCalls)

\* ----------------------------------------------------------- withdrawals
\* mutant: the fee is left in units of the withdrawn asset
WithdrawalFromExchange_rawFee(asset, amount, fee, time, brl_rate) ==
    [type |-> "WithdrawalFromExchange",
     base |-> TransactionBase(time, fee, asset, amount),
     origin_exchange |-> kraken_exchange_info]

WithdrawalFromExchange(asset, amount, fee, time, brl_rate) ==
    [type |-> "WithdrawalFromExchange",
     base |-> TransactionBase(time, DecMul(fee, brl_rate), asset, amount),
     origin_exchange |-> kraken_exchange_info]

ProcessWithdrawal ==
    /\ pc = "withdrawals"
    /\ LET withdrawal == withdrawals[i]
           asset      == withdrawal.asset
       IN  IF is_fiat(asset) THEN Continue(transactions, rateCalls)
           ELSE LET amount == ParseDecimal(withdrawal.amount)
                    fee    == ParseDecimal(withdrawal.fee)
                    time   == DateFromTimestamp(withdrawal.time)
                IN  IF amount = Err \/ fee = Err THEN Abort(rateCalls)
                    ELSE \E r \in RateOutcomes :
                           LET calls == Append(rateCalls, RateCall(time, asset, r))
                           IN  IF r = Err THEN Abort(calls)
                               ELSE Continue(
                                      Append(transactions,
                                             WithdrawalFromExchange(asset, amount, fee,
                                                                    time, r)),
                                      calls)

\* ----------------------------------------------------------------- trades
\* net amounts of a crypto/fiat trade (after fees)
OperationValue(cost, fee) == DecSub(cost, fee)

\* mutant: the fee is not netted from the volume
CryptoAmount_noNetting(vol, fee, price) == vol

CryptoAmount(vol, fee, price) == DecSub(vol, DecDiv(fee, price))

\* mutant: every side that is not buy is taken for sell
CryptoFiatRecord_otherIsSale(trade_type, base, vol, cost, fee, price, time, brl_rate) ==
    LET tbase == TransactionBase(time, DecMul(fee, brl_rate), base,
                                 DecSub(vol, DecDiv(fee, price)))
    IN  IF trade_type = buy
        THEN [type |-> "Purchase", base |-> tbase,
              operation_value |-> DecMul(DecSub(cost, fee), brl_rate),
              buyer_exchange |-> kraken_exchange_info]
        ELSE [type |-> "Sale", base |-> tbase,
              operation_value |-> DecMul(DecSub(cost, fee), brl_rate),
              seller_exchange |-> kraken_exchange_info]

\* the record of a crypto/fiat trade, Err for an unknown trade type
CryptoFiatRecord(trade_type, base, vol, cost, fee, price, time, brl_rate) ==
    LET operation_value == OperationValue(cost, fee)
        crypto_amount   == CryptoAmount(vol, fee, price)
        tbase == TransactionBase(time, DecMul(fee, brl_rate), base, crypto_amount)
    IN  IF trade_type = buy
        THEN [type |-> "Purchase", base |-> tbase,
              operation_value |-> DecMul(operation_value, brl_rate),
              buyer_exchange |-> kraken_exchange_info]
        ELSE IF trade_type = sell
        THEN [type |-> "Sale", base |-> tbase,
              operation_value |-> DecMul(operation_value, brl_rate),
              seller_exchange |-> kraken_exchange_info]
        ELSE Err

\* mutant: the fee is valued with the quote asset's rate
SwapRateAsset_quote(base, quote) == quote

\* the asset whose rate values the fee of a crypto/crypto trade
SwapRateAsset(base, quote) == base

\* mutant: sell builds the same legs as buy
SwapRecord_sideIgnored(trade_type, base, quote, vol, cost, fee, time, base_brl_rate) ==
    IF trade_type \in {buy, sell}
    THEN [type |-> "Swap", operation_date |-> time,
          operation_fees |-> DecMul(fee, base_brl_rate),
          received_crypto_symbol |-> base, received_crypto_amount |-> vol,
          given_crypto_symbol |-> quote, given_crypto_amount |-> cost,
          exchange |-> kraken_exchange_info]
    ELSE Err

\* the record of a crypto/crypto trade, Err for an unknown trade type
SwapRecord(trade_type, base, quote, vol, cost, fee, time, base_brl_rate) ==
    LET operation_fees == DecMul(fee, base_brl_rate)
    IN  IF trade_type = buy
        THEN [type |-> "Swap", operation_date |-> time,
              operation_fees |-> operation_fees,
              received_crypto_symbol |-> base, received_crypto_amount |-> vol,
              given_crypto_symbol |-> quote, given_crypto_amount |-> cost,
              exchange |-> kraken_exchange_info]
        ELSE IF trade_type = sell
        THEN [type |-> "Swap", operation_date |-> time,
              operation_fees |-> operation_fees,
              received_crypto_symbol |-> quote, received_crypto_amount |-> cost,
              given_crypto_symbol |-> base, given_crypto_amount |-> vol,
              exchange |-> kraken_exchange_info]
        ELSE Err

\* mutant: only the quote decides that a trade has a fiat leg
TradeKind_quoteOnly(base, quote) ==
    IF is_fiat(quote) THEN "CryptoFiat"
    ELSE IF is_fiat(base) THEN "FiatCrypto"
    ELSE "CryptoCrypto"

\* mutant: a fiat base is enough for the trade to be skipped
TradeKind_fiatBaseSkipped(base, quote) ==
    IF is_fiat(base) THEN "FiatFiat"
    ELSE IF is_fiat(quote) THEN "CryptoFiat"
    ELSE "CryptoCrypto"

\* match (is_fiat(base), is_fiat(quote))
TradeKind(base, quote) ==
    CASE ~is_fiat(base) /\ is_fiat(quote)  -> "CryptoFiat"
      [] ~is_fiat(base) /\ ~is_fiat(quote) -> "CryptoCrypto"
      [] is_fiat(base) /\ ~is_fiat(quote)  -> "FiatCrypto"
      [] is_fiat(base) /\ is_fiat(quote)   -> "FiatFiat"

ProcessTrade ==
    /\ pc = "trades"
    /\ LET trade == trades[i]
           pq    == parse_pair(trade.pair)
           vol   == ParseDecimal(trade.vol)
           cost  == ParseDecimal(trade.cost)
           fee   == ParseDecimal(trade.fee)
           price == ParseDecimal(trade.price)
           ts    == to_decimal(trade.time)
       IN  IF pq = None \/ Err \in {vol, cost, fee, price, ts} THEN Abort(rateCalls)
           ELSE
           LET base  == pq[1]
               quote == pq[2]
               time  == DateFromTimestamp(int_part(ts))
               trade_type == trade.type
               kind  == TradeKind(base, quote)
           IN  CASE kind = "CryptoFiat" ->
                      \* fee / price panics on a zero price, before the lookup
                      IF price.mantissa = 0 THEN Abort(rateCalls)
                      ELSE \E r \in RateOutcomes :
                             LET calls == Append(rateCalls, RateCall(time, quote, r))
                                 rec == CryptoFiatRecord(trade_type, base, vol, cost,
                                                         fee, price, time, r)
                             IN  IF r = Err THEN Abort(calls)
                                 ELSE IF rec = Err THEN Abort(calls)
                                 ELSE Continue(Append(transactions, rec), calls)
                 [] kind = "CryptoCrypto" ->
                      \E r \in RateOutcomes :
                         LET calls == Append(rateCalls,
                                             RateCall(time, SwapRateAsset(base, quote), r))
                             rec == SwapRecord(trade_type, base, quote, vol, cost,
                                               fee, time, r)
                         IN  IF r = Err THEN Abort(calls)
                             ELSE IF rec = Err THEN Abort(calls)
                             ELSE Continue(Append(transactions, rec), calls)
                 [] kind = "FiatCrypto" -> Abort(rateCalls)
                 [] kind = "FiatFiat" -> Continue(transactions, rateCalls)

\* ------------------------------------------------------------------- sort
Ascii == DigitChars \o UpperChars \o LowerChars

CharRank(c) == CHOOSE k \in 1..Len(Ascii) : Ascii[k] = c

\* a <= b in the byte-wise order of &str
RECURSIVE StrLeq(_, _)
StrLeq(a, b) ==
    IF Len(a) = 0 THEN TRUE
    ELSE IF Len(b) = 0 THEN FALSE
    ELSE IF a[1] = b[1] THEN StrLeq(Tail(a), Tail(b))
    ELSE CharRank(a[1]) < CharRank(b[1])

SortKey(t) == record_type(t)[1]

\* the arrangements of the records at positions S that have ascending keys
RECURSIVE Arrangements(_, _)
Arrangements(ts, S) ==
    IF S = {} THEN {<<>>}
    ELSE UNION { { <<ts[k]>> \o rest : rest \in Arrangements(ts, S \ {k}) } :
                 k \in {k \in S : \A j \in S : StrLeq(SortKey(ts[k]), SortKey(ts[j]))} }

\* mutant: a record equal to an earlier one is dropped (sort, then dedup)
SortOutcomes_dedup(ts) ==
    Arrangements(ts, {k \in 1..Len(ts) : \A j \in 1..(k - 1) : ts[j] # ts[k]})

\* mutant: the Vec is returned in push order
SortOutcomes_unsorted(ts) == {ts}

\* sort_unstable_by_key: the records in ascending order of their keys; the
\* order of records with equal keys is unspecified
SortOutcomes(ts) == Arrangements(ts, 1..Len(ts))

\* the end of process_kraken_data: sort, return to main
SortAndReturn ==
    /\ pc = "sort"
    /\ \E sorted \in SortOutcomes(transactions) : classified' = sorted
    /\ transactions' = <<>>
    /\ pc' = "create"
    /\ UNCHANGED <<deposits, withdrawals, trades, i, rateCalls, fields, writer,
                   io_failed, out_file, rate_query>>

\* -------------------------------------------------------- generate_report
\* capacity of the BufWriter (8192 bytes in std)
BufCapacity == 100

\* what a failed write of bytes to the file may leave in it before the error
\* is returned: nothing, or a part of them
PartWritten(bytes) == {<<>>, SubSeq(bytes, 1, Len(bytes) \div 2)}

\* BufWriter::flush_buf: Ok with all buffered bytes in the file, or Err with
\* a part of them; an empty buffer writes nothing and cannot fail
FlushOutcomes(bytes) ==
    {[ok |-> TRUE, written |-> bytes]}
    \cup (IF Len(bytes) = 0 THEN {}
          ELSE {[ok |-> FALSE, written |-> w] : w \in PartWritten(bytes)})

\* impl Drop for BufWriter: one more flush_buf whose result is ignored
DropOutcomes(bytes) == {o.written : o \in FlushOutcomes(bytes)}

\* File::create(out_file)?, wrapped in a BufWriter
CreateFile ==
    /\ pc = "create"
    /\ \E created \in BOOLEAN :
          IF created
          THEN /\ out_file' = [content |-> <<>>]
               /\ pc' = "write"
               /\ UNCHANGED io_failed
          ELSE /\ out_file' = out_file
               /\ pc' = "failed"
               /\ io_failed' = TRUE
    /\ writer' = <<>>
    /\ i' = 1
    /\ UNCHANGED <<deposits, withdrawals, trades, transactions, rateCalls, classified,
                   fields, rate_query>>

\* mutant: the list is walked from its end
NextRecord_backwards == classified[Len(classified) - i + 1]

\* for transaction in transactions
NextRecord == classified[i]

\* one turn of the loop: transaction.write_transaction(&mut file)?  The row
\* (always shorter than the buffer) goes to the buffer; a buffer without room
\* for it is flushed first, and an error of that flush is returned (the
\* BufWriter is then dropped)
WriteTransaction ==
    /\ pc = "write"
    /\ i <= Len(classified)
    /\ fields' = TransactionFields(NextRecord)
    /\ LET row == write_register_row(fields')
       IN  IF Len(writer) + Len(row) <= BufCapacity
           THEN /\ writer' = writer \o row
                /\ i' = i + 1
                /\ UNCHANGED <<pc, out_file, io_failed>>
           ELSE \E o \in FlushOutcomes(writer) :
                   IF o.ok
                   THEN /\ out_file' = [content |-> out_file.content \o writer]
                        /\ writer' = row
                        /\ i' = i + 1
                        /\ UNCHANGED <<pc, io_failed>>
                   ELSE \E d \in DropOutcomes(SubSeq(writer, Len(o.written) + 1,
                                                      Len(writer))) :
                           /\ out_file' = [content |-> out_file.content \o o.written \o d]
                           /\ writer' = <<>>
                           /\ pc' = "failed"
                           /\ io_failed' = TRUE
                           /\ UNCHANGED i
    /\ UNCHANGED <<deposits, withdrawals, trades, transactions, rateCalls, classified,
                   rate_query>>

\* Ok(()) is returned; the BufWriter is dropped, which flushes it to the file
\* and ignores the result of that flush
FinishReport ==
    /\ pc = "write"
    /\ i > Len(classified)
    /\ \E o \in FlushOutcomes(writer) :
          /\ out_file' = [content |-> out_file.content \o o.written]
          /\ io_failed' = (io_failed \/ ~o.ok)
    /\ writer' = <<>>
    /\ pc' = "done"
    /\ UNCHANGED <<deposits, withdrawals, trades, i, transactions, rateCalls, classified,
                   fields, rate_query>>

Next ==
    \/ ProcessDeposit
    \/ ProcessWithdrawal
    \/ ProcessTrade
    \/ SortAndReturn
    \/ CreateFile
    \/ WriteTransaction
    \/ FinishReport

Spec == Init /\ [][Next]_vars

\* ------------------------------------------- write_register_row on its own
\* most fields of one row handed to write_register_row
MaxFields == 4

I550 == <<"I","5","5","0">>

NaiveDate(y, m, d) == [year |-> y, month |-> m, day |-> d]

DateValues ==
    { NaiveDate(2023, 12, 31), NaiveDate(2024, 1, 1), NaiveDate(2000, 2, 29),
      NaiveDate(0, 1, 1), NaiveDate(987, 6, 5), NaiveDate(9999, 12, 31) }

\* 1234.5678, 0.01, 10000, 0.125, 0.135, 0, -1.5, 0.995, 0.5, 1.5
DecimalValues ==
    { Dec(12345678, 4), Dec(1, 2), Dec(10000, 0), Dec(125, 3), Dec(135, 3),
      Dec(0, 0), Dec(-15, 1), Dec(995, 3), Dec(5, 1), Dec(15, 1) }

Precisions == {0, 1, 2, 3}

\* the fields a one-field row is made of
FieldValues ==
    {FDate(d) : d \in DateValues}
    \cup {FDecimalNumber(v, p) : v \in DecimalValues, p \in Precisions}
    \cup {FAlphaNumber(I550), FAlphaNumber(<<"J","o","s","e"," ","S","i","l","v","a">>)}
    \cup {FEmpty}

\* the fields longer rows are made of
RowFieldValues ==
    {FAlphaNumber(I550), FEmpty, FDecimalNumber(Dec(1, 2), 2), FDate(NaiveDate(2023, 12, 31))}

\* a caller holding a field slice and an empty writer
RowInit ==
    /\ \E n \in 1..MaxFields :
          fields \in (IF n = 1 THEN [1..n -> FieldValues] ELSE [1..n -> RowFieldValues])
    /\ pc = "row"
    /\ i = 1
    /\ deposits = <<>>
    /\ withdrawals = <<>>
    /\ trades = <<>>
    /\ transactions = <<>>
    /\ rateCalls = <<>>
    /\ classified = <<>>
    /\ writer = <<>>
    /\ io_failed = FALSE
    /\ out_file = None
    /\ rate_query = None

\* write_register_row(&mut writer, &fields)
WriteRow ==
    /\ pc = "row"
    /\ writer' = writer \o write_register_row(fields)
    /\ pc' = "done"
    /\ UNCHANGED <<deposits, withdrawals, trades, i, transactions, rateCalls, classified,
                   fields, io_failed, out_file, rate_query>>

RowNext == WriteRow

RowSpec == RowInit /\ [][RowNext]_vars

\* --------------------------------------------- generate_report on its own
BTC == <<"B","T","C">>
ETH == <<"E","T","H">>

OperationDate == NaiveDate(2024, 1, 15)

other_exchange_info ==
    [name    |-> <<"B","i","s","q">>,
     url     |-> <<"h","t","t","p","s",":","/","/","b","i","s","q",".","n","e","t","w","o","r","k">>,
     country |-> <<"C","H">>]

\* one record of every variant, optional values both present and absent
ReportTransactions ==
    { CryptoFiatRecord(buy, BTC, Dec(2, 0), Dec(6, 0), Dec(1, 0), Dec(3, 0),
                       OperationDate, Dec(15, 1)),
      CryptoFiatRecord(sell, BTC, Dec(5, 1), Dec(10, 1), Dec(1, 1), Dec(2, 0),
                       OperationDate, Dec(2, 0)),
      [type |-> "Sale", base |-> TransactionBase(OperationDate, None, ETH, Dec(25, 2)),
       operation_value |-> Dec(1005, 3), seller_exchange |-> other_exchange_info],
      SwapRecord(buy, ETH, BTC, Dec(2, 0), Dec(6, 0), Dec(1, 0), OperationDate, Dec(2, 0)),
      [type |-> "Swap", operation_date |-> OperationDate, operation_fees |-> None,
       received_crypto_symbol |-> BTC, received_crypto_amount |-> Dec(1, 1),
       given_crypto_symbol |-> ETH, given_crypto_amount |-> Dec(3, 0),
       exchange |-> other_exchange_info],
      TransferToExchange(XXBT, Dec(15, 1), Dec(1, 1), OperationDate),
      [type |-> "TransferToExchange",
       base |-> TransactionBase(OperationDate, None, BTC, Dec(7, 0)),
       origin_wallet |-> <<"c","o","l","d">>,
       origin_exchange_name |-> <<"B","i","s","q">>],
      WithdrawalFromExchange(XXBT, Dec(1, 0), Dec(5, 1), OperationDate, Dec(2, 0)),
      [type |-> "CryptoPaymentReceiver",
       base |-> TransactionBase(OperationDate, Dec(12, 1), BTC, Dec(3, 0)),
       receiver_exchange |-> kraken_exchange_info],
      [type |-> "CryptoPaymentSender",
       base |-> TransactionBase(OperationDate, None, ETH, Dec(4, 0)),
       sender_exchange |-> other_exchange_info] }

\* a caller of generate_report holding any list of records
ReportInit ==
    /\ \E n \in 0..MaxEntries : classified \in [1..n -> ReportTransactions]
    /\ pc = "create"
    /\ i = 1
    /\ deposits = <<>>
    /\ withdrawals = <<>>
    /\ trades = <<>>
    /\ transactions = <<>>
    /\ rateCalls = <<>>
    /\ fields = <<>>
    /\ writer = <<>>
    /\ io_failed = FALSE
    /\ out_file = None
    /\ rate_query = None

ReportNext ==
    \/ CreateFile
    \/ WriteTransaction
    \/ FinishReport

ReportSpec == ReportInit /\ [][ReportNext]_vars

\* ------------------------------------- get_fiat_exchange_rate on its own
\* Dates are day numbers since 1970-01-01 here (2024-03-02 is day 19784).
USD == <<"U","S","D">>
EUR == <<"E","U","R">>

\* the BCB series of each supported currency code
BcbSeries ==
    [c \in CURRENCY_TO_BCB_SERIES |->
        CASE c = USD -> <<"1">>
          [] c = EUR -> <<"2","1","6","1","9">>
          [] c = <<"J","P","Y">> -> <<"2","1","6","2","1">>
          [] c = <<"G","B","P">> -> <<"2","1","6","2","3">>
          [] c = <<"C","H","F">> -> <<"2","1","6","2","5">>
          [] c = <<"D","K","K">> -> <<"2","1","6","2","7">>
          [] c = <<"N","O","K">> -> <<"2","1","6","2","9">>
          [] c = <<"S","E","K">> -> <<"2","1","6","3","1">>
          [] c = <<"A","U","D">> -> <<"2","1","6","3","3">>
          [] c = <<"C","A","D">> -> <<"2","1","6","3","5">>]

\* days the requested window reaches back from the date
WindowDays == 7

BCBValue(data, valor) == [data |-> data, valor |-> valor]

\* response.sort_by(|a, b| b.data.cmp(&a.data)): stable, latest date first
RECURSIVE InsertByDateDesc(_, _)
InsertByDateDesc(sorted, e) ==
    IF Len(sorted) = 0 THEN <<e>>
    ELSE IF sorted[1].data >= e.data
    THEN <<sorted[1]>> \o InsertByDateDesc(Tail(sorted), e)
    ELSE <<e>> \o sorted

\* mutant: the response is used in the order it arrived
SortByDateDesc_unsorted(response) == response

RECURSIVE SortByDateDesc(_)
SortByDateDesc(response) ==
    IF Len(response) = 0 THEN <<>>
    ELSE InsertByDateDesc(SortByDateDesc(SubSeq(response, 1, Len(response) - 1)),
                          response[Len(response)])

\* get_fiat_exchange_rate(date, currency_code) run on day `today`, the provider
\* answering `answer` if it is asked: the requests made and the value returned
get_fiat_exchange_rate(today, date, currency_code, answer) ==
    IF date > today
    THEN [requests |-> <<>>, result |-> [ok |-> FALSE, error |-> "future date"]]
    ELSE IF currency_code \notin DOMAIN BcbSeries
    THEN [requests |-> <<>>, result |-> [ok |-> FALSE, error |-> "unsupported currency"]]
    ELSE
    LET request == [series |-> BcbSeries[currency_code],
                    start_date |-> date - WindowDays, end_date |-> date]
    IN  IF answer.failed
        THEN [requests |-> <<request>>, result |-> [ok |-> FALSE, error |-> "request"]]
        ELSE IF Len(answer.entries) = 0
        THEN [requests |-> <<request>>, result |-> [ok |-> FALSE, error |-> "no data"]]
        ELSE LET response == SortByDateDesc(answer.entries)
             IN  [requests |-> <<request>>,
                  result |-> [ok |-> TRUE, date |-> response[1].data,
                              rate |-> response[1].valor]]

\* the days the function is run on, and the codes it is asked for
Todays == {19784, 19785}

CurrencyCodes ==
    {USD, EUR, <<"u","s","d">>, <<"B","R","L">>, <<"I","N","V","A","L","I","D">>}

\* what the provider may answer for a window that ends at `date`: a failure of the
\* request or of its parsing, or a list of (day, rate) entries in any order
ProviderEntries(date) ==
    {BCBValue(d, v) : d \in {date - 3, date - 1, date}, v \in {Dec(49, 1), Dec(5, 0)}}

ProviderAnswers(date) ==
    {[failed |-> TRUE, entries |-> <<>>]}
    \cup {[failed |-> FALSE, entries |-> e] :
             e \in UNION {[1..n -> ProviderEntries(date)] : n \in 0..MaxEntries}}

FiatRateInit ==
    /\ \E today \in Todays : \E date \in (today - 2)..(today + 1) :
       \E currency_code \in CurrencyCodes :
          rate_query = [today |-> today, date |-> date, currency_code |-> currency_code,
                       requests |-> <<>>, answer |-> None, result |-> None]
    /\ pc = "fiat_rate"
    /\ i = 1
    /\ deposits = <<>>
    /\ withdrawals = <<>>
    /\ trades = <<>>
    /\ transactions = <<>>
    /\ rateCalls = <<>>
    /\ classified = <<>>
    /\ fields = <<>>
    /\ writer = <<>>
    /\ io_failed = FALSE
    /\ out_file = None

\* one call of get_fiat_exchange_rate
GetFiatExchangeRate ==
    /\ pc = "fiat_rate"
    /\ \E answer \in ProviderAnswers(rate_query.date) :
          LET r == get_fiat_exchange_rate(rate_query.today, rate_query.date,
                                          rate_query.currency_code, answer)
          IN  rate_query' = [rate_query EXCEPT
                               !.requests = r.requests,
                               !.answer = IF Len(r.requests) = 0 THEN None ELSE answer,
                               !.result = r.result]
    /\ pc' = "done"
    /\ UNCHANGED <<deposits, withdrawals, trades, i, transactions, rateCalls, classified,
                   fields, writer, io_failed, out_file>>

FiatRateNext == GetFiatExchangeRate

FiatRateSpec == FiatRateInit /\ [][FiatRateNext]_vars

\* ------------------------------------------- get_exchange_rate on its own
\* the asset codes get_exchange_rate is asked for: every ticker of
\* FIAT_CURRENCIES, other spellings, the remaining BCB codes, crypto tickers
AssetCodes ==
    FIAT_CURRENCIES \cup CURRENCY_TO_BCB_SERIES
    \cup {<<"u","s","d">>, <<"e","u","r">>, <<"U","s","d">>, <<"z","e","u","r">>}
    \cup {BTC, ETH, XXBT}

ExchangeRateInit ==
    /\ \E date \in {NaiveDate(2024, 3, 1), NaiveDate(2024, 3, 2)} :
       \E asset_code \in AssetCodes :
          rate_query = [date |-> date, asset_code |-> asset_code]
    /\ pc = "exchange_rate"
    /\ i = 1
    /\ deposits = <<>>
    /\ withdrawals = <<>>
    /\ trades = <<>>
    /\ transactions = <<>>
    /\ rateCalls = <<>>
    /\ classified = <<>>
    /\ fields = <<>>
    /\ writer = <<>>
    /\ io_failed = FALSE
    /\ out_file = None

\* one call of get_exchange_rate(date, asset_code)
GetExchangeRate ==
    /\ pc = "exchange_rate"
    /\ \E r \in RateOutcomes :
          rateCalls' = Append(rateCalls,
                              RateCall(rate_query.date, rate_query.asset_code, r))
    /\ pc' = "done"
    /\ UNCHANGED <<deposits, withdrawals, trades, i, transactions, classified, fields,
                   writer, io_failed, out_file, rate_query>>

ExchangeRateNext == GetExchangeRate

ExchangeRateSpec == ExchangeRateInit /\ [][ExchangeRateNext]_vars

\* ------------------------------------------------------------ the output
\* everything handed to the writer so far, flushed or not
Output == (IF out_file = None THEN <<>> ELSE out_file.content) \o writer

Last(q) == q[Len(q)]

RECURSIVE DigitsValue(_)
DigitsValue(ds) ==
    IF Len(ds) = 0 THEN 0 ELSE 10 * DigitsValue(SubSeq(ds, 1, Len(ds) - 1)) + DigitOf(Last(ds))

\* the records generate_report has already handed to write_transaction
WrittenRecords ==
    IF pc = "write" THEN SubSeq(classified, 1, i - 1)
    ELSE IF pc = "done" THEN classified
    ELSE <<>>

\* the text values a record hands to the row writer
TextFields(t) ==
    CASE t.type = "Purchase" ->
           {t.base.crypto_symbol, t.buyer_exchange.name, t.buyer_exchange.url,
            t.buyer_exchange.country}
      [] t.type = "Sale" ->
           {t.base.crypto_symbol, t.seller_exchange.name, t.seller_exchange.url,
            t.seller_exchange.country}
      [] t.type = "Swap" ->
           {t.received_crypto_symbol, t.given_crypto_symbol, t.exchange.name,
            t.exchange.url, t.exchange.country}
      [] t.type = "TransferToExchange" ->
           {t.base.crypto_symbol}
           \cup (IF t.origin_wallet = None THEN {} ELSE {t.origin_wallet})
           \cup (IF t.origin_exchange_name = None THEN {} ELSE {t.origin_exchange_name})
      [] t.type = "WithdrawalFromExchange" ->
           {t.base.crypto_symbol, t.origin_exchange.name, t.origin_exchange.url,
            t.origin_exchange.country}

\* the entry the trade loop is at, resolved
TradeBase == parse_pair(trades[i].pair)[1]
TradeQuote == parse_pair(trades[i].pair)[2]
TradeDate == DateFromTimestamp(int_part(to_decimal(trades[i].time)))
TradeVol == ParseDecimal(trades[i].vol)
TradeCost == ParseDecimal(trades[i].cost)
TradeFee == ParseDecimal(trades[i].fee)
TradePrice == ParseDecimal(trades[i].price)

\* this step made exactly one rate call, for (date, asset)
OneRateCall(date, asset) ==
    /\ Len(rateCalls') = Len(rateCalls) + 1
    /\ SubSeq(rateCalls', 1, Len(rateCalls)) = rateCalls
    /\ Last(rateCalls').date = date
    /\ Last(rateCalls').asset_code = asset

\* this step pushed exactly one record
OneRecordPushed ==
    /\ Len(transactions') = Len(transactions) + 1
    /\ SubSeq(transactions', 1, Len(transactions)) = transactions

EndsWithCRLF(bytes) ==
    Len(bytes) >= 2 /\ bytes[Len(bytes) - 1] = "CR" /\ bytes[Len(bytes)] = "LF"

\* the positions where a CRLF terminator starts
Terminators(bytes) ==
    {k \in 1..(Len(bytes) - 1) : bytes[k] = "CR" /\ bytes[k + 1] = "LF"}

\* the last row of bytes that end with CRLF, without its terminator
LastRow(bytes) ==
    LET before == {k \in Terminators(bytes) : k < Len(bytes) - 1}
        from == IF before = {} THEN 1
                ELSE (CHOOSE k \in before : \A j \in before : j <= k) + 2
    IN  SubSeq(bytes, from, Len(bytes) - 2)

\* the k-th CRLF-terminated row of bytes, without its terminator
NthRow(bytes, k) ==
    LET T == Terminators(bytes)
        nth(j) == CHOOSE e \in T : Cardinality({m \in T : m < e}) = j - 1
    IN  SubSeq(bytes, IF k = 1 THEN 1 ELSE nth(k - 1) + 2, nth(k) - 1)

SepPositions(row) == {k \in 1..Len(row) : row[k] = "|"}

\* a row cut at every delimiter: the texts between the delimiters, in order
RowFields(row) ==
    LET P == SepPositions(row)
        n == Cardinality(P) + 1
        sep(j) == CHOOSE k \in P : Cardinality({m \in P : m < k}) = j - 1
    IN  [j \in 1..n |->
            SubSeq(row, IF j = 1 THEN 1 ELSE sep(j - 1) + 1,
                        IF j = n THEN Len(row) ELSE sep(j) - 1)]

\* the CRLF-terminated rows of a byte sequence, in order, without terminators
RowsOf(bytes) == [k \in 1..Cardinality(Terminators(bytes)) |-> NthRow(bytes, k)]

\* the text before the first delimiter of a row
FirstField(row) == RowFields(row)[1]

\* generate_report has just written a row: that of record classified[i - 1]
JustWritten == pc = "write" /\ i > 1

\* the record whose row has just been written, and that row cut into fields
WrittenRecord == classified[i - 1]
WrittenParts == RowFields(LastRow(writer))

\* how many characters follow the comma of a number's text
FractionDigits(text) ==
    IF Contains(text, ",")
    THEN Len(text) - (CHOOSE k \in 1..Len(text) : text[k] = ",")
    ELSE 0

\* the text of a date, of a number with p decimals, of an optional number
DateText(d) == FieldText(FDate(d))
NumberText(v, p) == FieldText(FDecimalNumber(v, p))
FeeText(fees) == IF fees = None THEN <<>> ELSE NumberText(fees, 2)

\* parts[from .. from + 2] are an exchange's name, URL and country
ExchangeAt(parts, from, e) ==
    /\ parts[from] = e.name
    /\ parts[from + 1] = e.url
    /\ parts[from + 2] = e.country

\* the records of ts whose sort key is key, in their order in ts
WithKey(ts, key) == SelectSeq(ts, LAMBDA t : SortKey(t) = key)

\* the rows of the first n records of ts, one after the other
RECURSIVE RowsUpTo(_, _)
RowsUpTo(ts, n) ==
    IF n = 0 THEN <<>> ELSE RowsUpTo(ts, n - 1) \o write_transaction(ts[n])

\* the operation date a record carries
RecordDate(t) == IF t.type = "Swap" THEN t.operation_date ELSE t.base.operation_date

\* the (code, category) pair declared for each kind of record
DeclaredRecordType(type) ==
    CASE type = "Purchase"               -> << <<"0","1","1","0">>, <<"I">> >>
      [] type = "Sale"                   -> << <<"0","1","2","0">>, <<"I">> >>
      [] type = "Swap"                   -> << <<"0","2","1","0">>, <<"I","I">> >>
      [] type = "TransferToExchange"     -> << <<"0","4","1","0">>, <<"I","V">> >>
      [] type = "WithdrawalFromExchange" -> << <<"0","5","1","0">>, <<"V">> >>
      [] type = "CryptoPaymentReceiver"  -> << <<"0","7","1","0">>, <<"V","I","I">> >>
      [] type = "CryptoPaymentSender"    -> << <<"0","7","2","0">>, <<"V","I","I">> >>

\* ------------------------------------------------------------------ claims

\* C1 (as claimed): no record with a text field containing the delimiter '|'
\* is ever written: generate_report fails on it before a row reaches the output.
C1_PipeTextNeverWritten ==
    \A k \in 1..Len(WrittenRecords) :
        \A v \in TextFields(WrittenRecords[k]) : ~Contains(v, "|")

\* C2: the record codes (first fields) of the rows generate_report has
\* written are non-decreasing from the first row to the last.
C2_CodesNonDecreasing ==
    LET rows == RowsOf(Output)
    IN  \A a, b \in 1..Len(rows) :
            a < b => DigitsValue(FirstField(rows[a])) <= DigitsValue(FirstField(rows[b]))

C2_Witness ==
    LET rows == RowsOf(Output)
    IN  /\ pc = "done"
        /\ Len(deposits) > 0
        /\ Len(rows) >= 2
        /\ FirstField(rows[1]) \in {<<"0","1","1","0">>, <<"0","1","2","0">>, <<"0","2","1","0">>}
        /\ FirstField(Last(rows)) = <<"0","4","1","0">>

\* C3: once a rate lookup has failed the run is aborted: nothing is returned
\* to main, not even the records classified before, and the output file is
\* never created; the file is created only after classification has returned.
C3_RateFailureAbortsRun ==
    /\ (\E k \in 1..Len(rateCalls) : rateCalls[k].result = Err)
          => /\ pc = "panicked"
             /\ transactions = <<>>
             /\ classified = <<>>
             /\ out_file = None
             /\ writer = <<>>
    /\ (out_file # None \/ writer # <<>>) => pc \in {"write", "done", "failed"}

C3_Witness ==
    /\ pc = "panicked"
    /\ Len(rateCalls) >= 2
    /\ rateCalls[1].result # Err
    /\ Last(rateCalls).result = Err

\* C4: a crypto/fiat trade with side buy (sell) either aborts (zero price or
\* failed lookup of rate(date, quote)) or pushes exactly one Purchase (Sale)
\* with amount V - F/P, value (C - F) * r, fee F * r and symbol base.
C4_CryptoFiatTrade ==
    [][ (pc = "trades" /\ ~is_fiat(TradeBase) /\ is_fiat(TradeQuote)
            /\ trades[i].type \in {buy, sell})
        => \/ /\ pc' = "panicked"
              /\ \/ TradePrice.mantissa = 0 /\ rateCalls' = rateCalls
                 \/ OneRateCall(TradeDate, TradeQuote) /\ Last(rateCalls').result = Err
           \/ /\ pc' # "panicked"
              /\ OneRateCall(TradeDate, TradeQuote)
              /\ Last(rateCalls').result # Err
              /\ OneRecordPushed
              /\ LET t == Last(transactions')
                     r == Last(rateCalls').result
                 IN  /\ t.type = (IF trades[i].type = buy THEN "Purchase" ELSE "Sale")
                     /\ DecEq(t.base.crypto_amount,
                              DecSub(TradeVol, DecDiv(TradeFee, TradePrice)))
                     /\ DecEq(t.operation_value, DecMul(DecSub(TradeCost, TradeFee), r))
                     /\ DecEq(t.base.operation_fees, DecMul(TradeFee, r))
                     /\ t.base.crypto_symbol = TradeBase
                     /\ t.base.operation_date = TradeDate
      ]_vars

C4_Witness ==
    /\ pc = "sort"
    /\ \E a, b \in 1..Len(transactions) :
          /\ transactions[a].type = "Purchase"
          /\ transactions[a].base.crypto_amount.scale = DecMaxScale
          /\ transactions[b].type = "Sale"

\* C5: a crypto/crypto trade that is classified pushes exactly one Swap:
\* buy receives base (amount = volume) and gives quote (amount = cost), sell
\* receives quote (amount = cost) and gives base (amount = volume); the fee
\* is netted from neither leg.
C5_SwapLegs ==
    [][ (pc = "trades" /\ ~is_fiat(TradeBase) /\ ~is_fiat(TradeQuote)
            /\ trades[i].type \in {buy, sell} /\ pc' # "panicked")
        => /\ OneRecordPushed
           /\ LET t == Last(transactions')
                  isBuy == trades[i].type = buy
              IN  /\ t.type = "Swap"
                  /\ t.received_crypto_symbol = (IF isBuy THEN TradeBase ELSE TradeQuote)
                  /\ t.given_crypto_symbol = (IF isBuy THEN TradeQuote ELSE TradeBase)
                  /\ DecEq(t.received_crypto_amount, IF isBuy THEN TradeVol ELSE TradeCost)
                  /\ DecEq(t.given_crypto_amount, IF isBuy THEN TradeCost ELSE TradeVol)
      ]_vars

C5_Witness ==
    \E a, b \in 1..Len(transactions) :
        /\ transactions[a].type = "Swap"
        /\ transactions[a].received_crypto_symbol = <<"E","T","H">>
        /\ transactions[b].type = "Swap"
        /\ transactions[b].received_crypto_symbol = <<"B","T","C">>

\* C6: a crypto/crypto trade makes exactly one rate call, for (date, base),
\* never for quote, whatever its side; the Swap's fee is the trade's fee
\* times the rate that call returned.
C6_SwapFeeUsesBaseRate ==
    [][ (pc = "trades" /\ ~is_fiat(TradeBase) /\ ~is_fiat(TradeQuote))
        => /\ OneRateCall(TradeDate, TradeBase)
           /\ Last(rateCalls').asset_code # TradeQuote
           /\ (pc' # "panicked"
                 => /\ Last(rateCalls').result # Err
                    /\ Last(transactions').type = "Swap"
                    /\ DecEq(Last(transactions').operation_fees,
                             DecMul(TradeFee, Last(rateCalls').result)))
      ]_vars

C6_Witness ==
    /\ pc = "sort"
    /\ Len(rateCalls) = 2
    /\ \A k \in 1..2 : rateCalls[k].asset_code = <<"E","T","H">> /\ rateCalls[k].result # Err
    /\ Len(transactions) = 2
    /\ transactions[1].received_crypto_symbol # transactions[2].received_crypto_symbol

\* C7: a deposit pushes a TransferToExchange iff its asset is not fiat, with
\* the deposit's amount, asset and fee unchanged and both origins unset; no
\* deposit makes a rate call; an all-fiat deposit list leaves no record.
C7_Deposits ==
    [][ pc = "deposits"
        => LET d == deposits[i]
           IN  /\ rateCalls' = rateCalls
               /\ pc' # "panicked"
               /\ is_fiat(d.asset) => transactions' = transactions
               /\ ~is_fiat(d.asset)
                    => /\ OneRecordPushed
                       /\ LET t == Last(transactions')
                          IN  /\ t.type = "TransferToExchange"
                              /\ t.base.crypto_symbol = d.asset
                              /\ DecEq(t.base.crypto_amount, ParseDecimal(d.amount))
                              /\ t.base.operation_fees # None
                              /\ DecEq(t.base.operation_fees, ParseDecimal(d.fee))
                              /\ t.origin_wallet = None
                              /\ t.origin_exchange_name = None
               /\ ((\A k \in 1..Len(deposits) : is_fiat(deposits[k].asset))
                      /\ pc' # "deposits") => transactions' = <<>>
      ]_vars

C7_Witness ==
    /\ pc \in {"withdrawals", "trades", "sort"}
    /\ Len(deposits) = 2
    /\ is_fiat(deposits[1].asset)
    /\ ~is_fiat(deposits[2].asset)
    /\ Len(transactions) = 1
    /\ transactions[1].type = "TransferToExchange"
    /\ rateCalls = <<>>

\* C8: a withdrawal pushes a WithdrawalFromExchange iff its asset is not fiat
\* (and the lookup succeeds); its fee is the withdrawal fee times the rate
\* returned for (date, asset), its amount is unchanged; a fiat withdrawal
\* makes no rate call.
C8_Withdrawals ==
    [][ pc = "withdrawals"
        => LET w == withdrawals[i]
               date == DateFromTimestamp(w.time)
           IN  /\ is_fiat(w.asset)
                    => /\ transactions' = transactions
                       /\ rateCalls' = rateCalls
                       /\ pc' # "panicked"
               /\ ~is_fiat(w.asset)
                    => /\ OneRateCall(date, w.asset)
                       /\ (pc' = "panicked") = (Last(rateCalls').result = Err)
                       /\ pc' # "panicked"
                            => /\ OneRecordPushed
                               /\ LET t == Last(transactions')
                                  IN  /\ t.type = "WithdrawalFromExchange"
                                      /\ t.base.crypto_symbol = w.asset
                                      /\ DecEq(t.base.crypto_amount, ParseDecimal(w.amount))
                                      /\ DecEq(t.base.operation_fees,
                                               DecMul(ParseDecimal(w.fee),
                                                      Last(rateCalls').result))
      ]_vars

C8_Witness ==
    /\ pc \in {"trades", "sort"}
    /\ Len(withdrawals) = 2
    /\ ~is_fiat(withdrawals[1].asset)
    /\ is_fiat(withdrawals[2].asset)
    /\ Len(rateCalls) = 1
    /\ \E k \in 1..Len(transactions) : transactions[k].type = "WithdrawalFromExchange"

\* C9: a fiat/fiat trade pushes no record and makes no rate call, and the
\* loop goes on to the next trade (or to the sort after the last one).
C9_FiatFiatSkipped ==
    [][ (pc = "trades" /\ is_fiat(TradeBase) /\ is_fiat(TradeQuote))
        => /\ transactions' = transactions
           /\ rateCalls' = rateCalls
           /\ IF i < Len(trades) THEN pc' = "trades" /\ i' = i + 1 ELSE pc' = "sort"
      ]_vars

C9_Witness ==
    /\ pc = "sort"
    /\ Len(trades) >= 2
    /\ is_fiat(parse_pair(trades[1].pair)[1])
    /\ is_fiat(parse_pair(trades[1].pair)[2])
    /\ \E k \in 1..Len(transactions) : transactions[k].type \in {"Purchase", "Sale", "Swap"}

\* C10: a trade with fiat base and crypto quote always aborts the run: no
\* rate call, no record, nothing returned or written, and an aborted run
\* takes no further step.
C10_FiatCryptoAborts ==
    [][ /\ pc # "panicked"
        /\ (pc = "trades" /\ is_fiat(TradeBase) /\ ~is_fiat(TradeQuote))
              => /\ pc' = "panicked"
                 /\ rateCalls' = rateCalls
                 /\ transactions' = <<>>
                 /\ classified' = <<>>
                 /\ out_file' = None
      ]_vars

C10_Witness ==
    /\ pc = "panicked"
    /\ deposits = <<>>
    /\ withdrawals = <<>>
    /\ i = 2
    /\ Len(trades) >= 2
    /\ Len(transactions) = 0
    /\ is_fiat(parse_pair(trades[i].pair)[1])
    /\ ~is_fiat(parse_pair(trades[i].pair)[2])
    /\ \A k \in 1..Len(rateCalls) : rateCalls[k].result # Err

\* C11: a crypto/fiat or crypto/crypto trade whose side is neither "buy" nor
\* "sell" aborts the run: no record is pushed for it and nothing is returned.
C11_UnknownSideAborts ==
    [][ (pc = "trades" /\ ~is_fiat(TradeBase) /\ trades[i].type \notin {buy, sell})
        => /\ pc' = "panicked"
           /\ transactions' = <<>>
           /\ classified' = <<>>
      ]_vars

\* a crypto/fiat trade with side "b" aborted although its rate lookup succeeded
C11_Witness ==
    /\ pc = "panicked"
    /\ deposits = <<>>
    /\ withdrawals = <<>>
    /\ Len(trades) >= i
    /\ trades[i].type = <<"b">>
    /\ is_fiat(parse_pair(trades[i].pair)[2])
    /\ Len(rateCalls) = i
    /\ \A k \in 1..Len(rateCalls) : rateCalls[k].result # Err

C13_DecimalEncoding ==
    (pc = "done" /\ Len(fields) = 1 /\ fields[1].k = "DecimalNumber") =>
        LET v == fields[1].value
            p == fields[1].precision
            text == LastRow(writer)
            body == IF Len(text) > 0 /\ text[1] = "-" THEN Tail(text) ELSE text
            read == ParseDecimal(Replace(text, ",", "."))
            S == Max(v.scale, p)
        IN  /\ writer = text \o <<"CR", "LF">>
            /\ ~Contains(text, "+") /\ ~Contains(text, ".")
            /\ Len(body) >= (IF p = 0 THEN 1 ELSE p + 2)
            /\ \A k \in 1..Len(body) :
                  IF p > 0 /\ k = Len(body) - p THEN body[k] = "," ELSE body[k] \in Digits
            /\ read # Err
            /\ read.scale = p
            /\ 2 * Abs(read.mantissa * Pow10(S - p) - v.mantissa * Pow10(S - v.scale))
                  <= Pow10(S - p)
            /\ (v = Dec(12345678, 4) /\ p = 2) => text = <<"1","2","3","4",",","5","7">>
            /\ (v = Dec(12345678, 4) /\ p = 3) => text = <<"1","2","3","4",",","5","6","8">>
            /\ (v = Dec(12345678, 4) /\ p = 0) => text = <<"1","2","3","5">>
            /\ (v = Dec(1, 2) /\ p = 2) => text = <<"0",",","0","1">>
            /\ (v = Dec(10000, 0) /\ p = 2) => text = <<"1","0","0","0","0",",","0","0">>

C13_Witness ==
    /\ pc = "done"
    /\ fields = <<FDecimalNumber(Dec(12345678, 4), 2)>>
    /\ writer = <<"1","2","3","4",",","5","7","CR","LF">>

\* C14: a Date with a year in 0..9999 is written as exactly 8 digits DDMMYYYY:
\* day and month zero-padded to two digits, the year to four, no separators
\* (2023-12-31 gives 31122023).
C14_DateEncoding ==
    (pc = "done" /\ Len(fields) = 1 /\ fields[1].k = "Date"
        /\ fields[1].date.year \in 0..9999) =>
        LET d == fields[1].date
            text == LastRow(writer)
        IN  /\ writer = text \o <<"CR", "LF">>
            /\ Len(text) = 8
            /\ \A k \in 1..Len(text) : text[k] \in Digits
            /\ DigitsValue(SubSeq(text, 1, 2)) = d.day
            /\ DigitsValue(SubSeq(text, 3, 4)) = d.month
            /\ DigitsValue(SubSeq(text, 5, 8)) = d.year
            /\ d = NaiveDate(2023, 12, 31)
                  => text = <<"3","1","1","2","2","0","2","3">>

\* a date whose day, month and year all need padding
C14_Witness ==
    /\ pc = "done"
    /\ fields = <<FDate(NaiveDate(987, 6, 5))>>
    /\ writer = <<"0","5","0","6","0","9","8","7","CR","LF">>

\* C15: every record has the (code, category) pair declared for its variant;
\* records of different variants have different codes; the first field of a
\* record's row is its 4-digit code and the third its category, and the sort
\* key of the record is that same code.
C15_RecordTypeOfRow ==
    /\ \A k \in 1..Len(classified) :
          /\ record_type(classified[k]) = DeclaredRecordType(classified[k].type)
          /\ SortKey(classified[k]) = DeclaredRecordType(classified[k].type)[1]
    /\ \A a, b \in 1..Len(classified) :
          (record_type(classified[a])[1] = record_type(classified[b])[1])
             <=> (classified[a].type = classified[b].type)
    /\ JustWritten =>
          LET declared == DeclaredRecordType(classified[i - 1].type)
              parts == RowFields(LastRow(writer))
          IN  /\ Len(parts) >= 3
              /\ parts[1] = declared[1]
              /\ Len(parts[1]) = 4
              /\ \A k \in 1..4 : parts[1][k] \in Digits
              /\ parts[3] = declared[2]

C15_Witness ==
    /\ JustWritten
    /\ i = 4
    /\ classified[1].type = "CryptoPaymentReceiver"
    /\ classified[2].type = "Sale"
    /\ classified[3].type = "CryptoPaymentSender"
    /\ RowFields(LastRow(writer))[1] = <<"0","7","2","0">>
    /\ RowFields(LastRow(writer))[3] = <<"V","I","I">>

\* C16: the row of a Purchase or Sale has exactly 10 fields: code, date,
\* category, operation value (2 decimals), fee (2 decimals) or empty, asset
\* symbol, crypto amount (10 decimals for a Purchase, 12 for a Sale), exchange
\* name, exchange URL, exchange country.
C16_PurchaseSaleRow ==
    (JustWritten /\ WrittenRecord.type \in {"Purchase", "Sale"}) =>
        LET t == WrittenRecord
            parts == WrittenParts
            declared == DeclaredRecordType(t.type)
            decimals == IF t.type = "Purchase" THEN 10 ELSE 12
        IN  /\ Len(parts) = 10
            /\ parts[1] = declared[1]
            /\ parts[2] = DateText(t.base.operation_date)
            /\ parts[3] = declared[2]
            /\ parts[4] = NumberText(t.operation_value, 2)
            /\ FractionDigits(parts[4]) = 2
            /\ parts[5] = FeeText(t.base.operation_fees)
            /\ FractionDigits(parts[5]) = (IF t.base.operation_fees = None THEN 0 ELSE 2)
            /\ parts[6] = t.base.crypto_symbol
            /\ parts[7] = NumberText(t.base.crypto_amount, decimals)
            /\ FractionDigits(parts[7]) = decimals
            /\ ExchangeAt(parts, 8, IF t.type = "Purchase" THEN t.buyer_exchange
                                    ELSE t.seller_exchange)

\* a Purchase and then a Sale without fee have been written
C16_Witness ==
    /\ JustWritten
    /\ i = 3
    /\ classified[1].type = "Purchase"
    /\ WrittenRecord.type = "Sale"
    /\ WrittenRecord.base.operation_fees = None
    /\ WrittenParts[5] = <<>>
    /\ FractionDigits(WrittenParts[7]) = 12

\* C17: the row of a Swap has exactly 11 fields: code, date, category, fee
\* (2 decimals) or empty, received symbol, received amount (10 decimals), given
\* symbol, given amount (10 decimals), exchange name, URL, country; there is
\* no operation-value field.
C17_SwapRow ==
    (JustWritten /\ WrittenRecord.type = "Swap") =>
        LET t == WrittenRecord
            parts == WrittenParts
        IN  /\ Len(parts) = 11
            /\ parts[1] = <<"0","2","1","0">>
            /\ parts[2] = DateText(t.operation_date)
            /\ parts[3] = <<"I","I">>
            /\ parts[4] = FeeText(t.operation_fees)
            /\ FractionDigits(parts[4]) = (IF t.operation_fees = None THEN 0 ELSE 2)
            /\ parts[5] = t.received_crypto_symbol
            /\ parts[6] = NumberText(t.received_crypto_amount, 10)
            /\ FractionDigits(parts[6]) = 10
            /\ parts[7] = t.given_crypto_symbol
            /\ parts[8] = NumberText(t.given_crypto_amount, 10)
            /\ FractionDigits(parts[8]) = 10
            /\ ExchangeAt(parts, 9, t.exchange)

\* a Swap with a fee and then a Swap without one have been written
C17_Witness ==
    /\ JustWritten
    /\ i = 3
    /\ classified[1].type = "Swap"
    /\ classified[1].operation_fees # None
    /\ WrittenRecord.type = "Swap"
    /\ WrittenRecord.operation_fees = None
    /\ Len(WrittenParts) = 11
    /\ WrittenParts[4] = <<>>

\* C18: the row of a 0410, 0510, 0710 or 0720 record starts with code, date,
\* category, fee (2 decimals) or empty, asset symbol, crypto amount (10
\* decimals); a 0410 row then has origin wallet and origin exchange name, the
\* others exchange name, URL and country.  An absent fee, wallet or exchange
\* name is an empty field that keeps its delimiters: a 0410 row without
\* origins ends with the amount, two delimiters and CRLF.
C18_TransferRows ==
    (JustWritten /\ WrittenRecord.type \in {"TransferToExchange", "WithdrawalFromExchange",
                                            "CryptoPaymentReceiver", "CryptoPaymentSender"}) =>
        LET t == WrittenRecord
            parts == WrittenParts
            declared == DeclaredRecordType(t.type)
            row == LastRow(writer)
        IN  /\ Len(parts) = (IF t.type = "TransferToExchange" THEN 8 ELSE 9)
            /\ parts[1] = declared[1]
            /\ parts[2] = DateText(t.base.operation_date)
            /\ parts[3] = declared[2]
            /\ parts[4] = FeeText(t.base.operation_fees)
            /\ FractionDigits(parts[4]) = (IF t.base.operation_fees = None THEN 0 ELSE 2)
            /\ parts[5] = t.base.crypto_symbol
            /\ parts[6] = NumberText(t.base.crypto_amount, 10)
            /\ FractionDigits(parts[6]) = 10
            /\ CASE t.type = "TransferToExchange" ->
                      /\ parts[7] = (IF t.origin_wallet = None THEN <<>> ELSE t.origin_wallet)
                      /\ parts[8] = (IF t.origin_exchange_name = None THEN <<>>
                                     ELSE t.origin_exchange_name)
                      /\ (t.origin_wallet = None /\ t.origin_exchange_name = None)
                            => /\ SubSeq(row, Len(row) - 1, Len(row)) = <<"|", "|">>
                               /\ SubSeq(row, 1, Len(row) - 2)
                                     = JoinFields(<<FAlphaNumber(parts[1]), FAlphaNumber(parts[2]),
                                                    FAlphaNumber(parts[3]), FAlphaNumber(parts[4]),
                                                    FAlphaNumber(parts[5])>>, <<"|">>)
                                       \o <<"|">> \o NumberText(t.base.crypto_amount, 10)
                                /\ EndsWithCRLF(writer)
                 [] t.type = "WithdrawalFromExchange" -> ExchangeAt(parts, 7, t.origin_exchange)
                 [] t.type = "CryptoPaymentReceiver" -> ExchangeAt(parts, 7, t.receiver_exchange)
                 [] t.type = "CryptoPaymentSender" -> ExchangeAt(parts, 7, t.sender_exchange)

\* a 0410 row as the classifier builds it (no origins) and a 0720 row without
\* fee have been written
C18_Witness ==
    /\ JustWritten
    /\ i = 3
    /\ classified[1] = TransferToExchange(XXBT, Dec(15, 1), Dec(1, 1), OperationDate)
    /\ WrittenRecord.type = "CryptoPaymentSender"
    /\ WrittenRecord.base.operation_fees = None
    /\ Len(WrittenParts) = 9
    /\ WrittenParts[4] = <<>>

\* C19 (as claimed): the sort is stable: records with the same code leave the
\* sort in the relative order in which the classifier pushed them.
C19_StableOrder ==
    [][ pc = "sort"
        => \A k \in 1..Len(transactions) :
              WithKey(classified', SortKey(transactions[k]))
                 = WithKey(transactions, SortKey(transactions[k]))
      ]_vars

C21_StreamFailureReturned ==
    /\ io_failed => pc # "done"
    /\ pc = "done" => out_file.content = RowsUpTo(classified, Len(classified))

\* C22 (as claimed): when generate_report fails after it has started writing,
\* no output file holding the rows of the records before the failing one is
\* left behind.
C22_NoPartialFile ==
    pc = "failed" => \/ out_file = None
                     \/ ~\E n \in 1..Len(classified) :
                           out_file.content = RowsUpTo(classified, n)

\* C23 (as claimed): the date of a trade's record is the UTC date of the
\* whole seconds of its timestamp (the fraction is dropped), and a timestamp
\* whose whole seconds do not fit the integer type aborts the run.
C23_DateFromIntegerSeconds ==
    [][ (pc = "trades")
        => LET secs == DecTrunc(to_decimal(trades[i].time)).mantissa
           IN  /\ secs >= 2 ^ (I64Bits - 1) => pc' = "panicked"
               /\ (pc' # "panicked" /\ Len(transactions') > Len(transactions))
                     => RecordDate(Last(transactions')) = DateFromTimestamp(secs)
      ]_vars

\* the amounts a record carries: crypto amounts, fee and (Purchase/Sale) value
RecordAmounts(t) ==
    IF t.type = "Swap"
    THEN {t.received_crypto_amount, t.given_crypto_amount, t.operation_fees}
    ELSE {t.base.crypto_amount, t.base.operation_fees}
         \cup (IF t.type \in {"Purchase", "Sale"} THEN {t.operation_value} ELSE {})

\* the numbers of the entry the loop is at; the rates of RateOutcomes are positive
EntryNumbers ==
    CASE pc = "deposits" ->
           {ParseDecimal(deposits[i].amount), ParseDecimal(deposits[i].fee)}
      [] pc = "withdrawals" ->
           {ParseDecimal(withdrawals[i].amount), ParseDecimal(withdrawals[i].fee)}
      [] pc = "trades" ->
           {ParseDecimal(trades[i].vol), ParseDecimal(trades[i].cost),
            ParseDecimal(trades[i].fee), ParseDecimal(trades[i].price)}
      [] OTHER -> {}

\* C24 (as claimed): a record made from an entry whose amount, volume, cost and
\* fee are non-negative and whose price is positive carries no negative crypto
\* amount, operation value or fee.
C24_NonNegativeAmounts ==
    [][ (/\ pc \in {"deposits", "withdrawals", "trades"}
         /\ Len(transactions') > Len(transactions)
         /\ \A d \in EntryNumbers : d # Err /\ d.mantissa >= 0
         /\ pc = "trades" => ParseDecimal(trades[i].price).mantissa > 0)
        => \A a \in RecordAmounts(Last(transactions')) : a = None \/ a.mantissa >= 0
      ]_vars

\* the latest day among the entries of a provider's answer
LatestDate(entries) ==
    CHOOSE d \in {entries[k].data : k \in 1..Len(entries)} :
        \A k \in 1..Len(entries) : entries[k].data <= d

\* C25: get_fiat_exchange_rate fails for a date after today (before the table
\* is consulted and before any request), for a code that is not in the BCB
\* table, and when the provider has no entry for the window [date - 7, date];
\* given entries, it returns the rate of one with the latest date.
C25_FiatRateErrors ==
    (pc = "done" /\ rate_query # None)
    => LET q == rate_query
           supported == q.currency_code \in CURRENCY_TO_BCB_SERIES
       IN  /\ q.date > q.today
                => ~q.result.ok /\ q.result.error = "future date" /\ q.requests = <<>>
           /\ (q.date <= q.today /\ ~supported)
                => ~q.result.ok /\ q.result.error = "unsupported currency"
                   /\ q.requests = <<>>
           /\ (q.date <= q.today /\ supported)
                => /\ Len(q.requests) = 1
                   /\ q.requests[1].start_date = q.date - 7
                   /\ q.requests[1].end_date = q.date
                   /\ (~q.answer.failed /\ Len(q.answer.entries) = 0) => ~q.result.ok
                   /\ (~q.answer.failed /\ Len(q.answer.entries) > 0)
                        => /\ q.result.ok
                           /\ q.result.date = LatestDate(q.answer.entries)
                           /\ \E k \in 1..Len(q.answer.entries) :
                                 q.answer.entries[k] = BCBValue(q.result.date, q.result.rate)

\* C25 witness: asked on a day without an entry, the call has returned the rate
\* of an earlier day although a still earlier entry came first in the answer
C25_Witness ==
    /\ pc = "done" /\ rate_query # None
    /\ rate_query.result # None /\ rate_query.result.ok
    /\ rate_query.result.date < rate_query.date
    /\ rate_query.answer.entries[1].data < rate_query.result.date

\* C26: a value whose discarded digits are exactly half a unit of the last
\* kept digit is written as the neighbour with an even last digit (0.125 at
\* precision 2 gives 0,12; 0.135 gives 0,14; 0.5 at precision 0 gives 0; 1.5
\* gives 2), not as the neighbour away from zero.
C26_HalfToEven ==
    (pc = "done" /\ Len(fields) = 1 /\ fields[1].k = "DecimalNumber") =>
        LET v == fields[1].value
            p == fields[1].precision
            text == LastRow(writer)
            read == ParseDecimal(Replace(text, ",", "."))
            unit == Pow10(v.scale - p)
            q == Abs(v.mantissa) \div unit
        IN  /\ (v.scale > p /\ 2 * (Abs(v.mantissa) % unit) = unit)
                 => /\ read # Err
                    /\ Abs(read.mantissa) % 2 = 0
                    /\ Abs(read.mantissa) = (IF q % 2 = 0 THEN q ELSE q + 1)
            /\ (v = Dec(125, 3) /\ p = 2) => text = <<"0",",","1","2">>
            /\ (v = Dec(135, 3) /\ p = 2) => text = <<"0",",","1","4">>
            /\ (v = Dec(5, 1) /\ p = 0) => text = <<"0">>
            /\ (v = Dec(15, 1) /\ p = 0) => text = <<"2">>

\* C26 witness: 0.125 at precision 2 has been written as 0,12
C26_Witness ==
    /\ pc = "done"
    /\ fields = <<FDecimalNumber(Dec(125, 3), 2)>>
    /\ writer = <<"0",",","1","2","CR","LF">>

\* C27 (as claimed): every asset code the classifier takes for fiat (is_fiat,
\* whatever its case, Z-prefixed or not) is priced from the BCB series and
\* never from CoinGecko.
C27_FiatPricedByBcb ==
    \A k \in 1..Len(rateCalls) :
        is_fiat(rateCalls[k].asset_code) => rateCalls[k].source = "bcb"

\* the fee a record carries (None when absent)
RecordFee(t) == IF t.type = "Swap" THEN t.operation_fees ELSE t.base.operation_fees

\* how often record r occurs in list q
Occurrences(q, r) == Cardinality({k \in 1..Len(q) : q[k] = r})

\* the entries that give a record: deposits and withdrawals of a non-fiat asset,
\* trades that are not fiat/fiat
RecordedEntries ==
    Cardinality({k \in 1..Len(deposits) : ~is_fiat(deposits[k].asset)})
    + Cardinality({k \in 1..Len(withdrawals) : ~is_fiat(withdrawals[k].asset)})
    + Cardinality({k \in 1..Len(trades) :
                      LET pq == parse_pair(trades[k].pair)
                      IN  ~(is_fiat(pq[1]) /\ is_fiat(pq[2]))})

\* C28: when process_kraken_data returns, it returns one record per non-fiat
\* deposit, non-fiat withdrawal and trade that is not fiat/fiat, each with its
\* fee present, and the list returned is a permutation of the list the loops
\* built: no record is lost, duplicated or altered by the sort.
C28_RecordsReturned ==
    [][ (pc = "sort")
        => /\ pc' = "create"
           /\ Len(classified') = RecordedEntries
           /\ \A k \in 1..Len(classified') : RecordFee(classified'[k]) # None
           /\ Len(classified') = Len(transactions)
           /\ \A k \in 1..Len(transactions) :
                 Occurrences(classified', transactions[k])
                    = Occurrences(transactions, transactions[k])
      ]_vars

\* C28 witness: three entries, one of them a fiat deposit, have given two
\* records, and the sort has put the trade's record before the deposit's
C28_Witness ==
    /\ pc = "create"
    /\ Len(deposits) = 2 /\ Len(trades) = 1
    /\ \E k \in 1..2 : is_fiat(deposits[k].asset)
    /\ Len(classified) = 2
    /\ classified[1].type = "Purchase"
    /\ classified[2].type = "TransferToExchange"
    /\ RecordFee(classified[2]) # None

====
